---- MODULE Spec2Model ----
(***************************************************************************)
(* Session lifecycle and reconnect state machine of server.js.             *)
(*                                                                         *)
(* accountData is the Map of Session Records.  conns holds every client    *)
(* object createClient has returned (the record's `client` field is an     *)
(* index into it, 0 for null) and timers every Timeout object setTimeout   *)
(* has returned (`reconnectTimer` is an index into it, 0 for null).        *)
(* Every handler runs to completion on the single event loop, so each      *)
(* handler is one action.                                                  *)
(***************************************************************************)
EXTENDS Integers, Sequences, FiniteSets, TLC

VARIABLES accountData, conns, timers, sessionEnds, stoppedConns, last

vars == <<accountData, conns, timers, sessionEnds, stoppedConns, last>>

(* ---------------------------------------------------------------- bounds *)
\* accounts the operator addresses
Accounts == {"a"}
\* client objects createClient may return in one run
MaxConns == 2
\* Timeout objects setTimeout may return in one run
MaxTimers == 2
\* log entries of one account beyond which no further handler is explored
MaxLog == 5
\* the same for the run of a few handlers to a longer log
MaxLogStale == 10
\* the same for the run in which the server cannot be reached
MaxLogRetry == 7
\* the same for the run with two accounts
MaxLogPair == 2
\* the accounts of the run with two accounts
PairAccounts == {"a", "b"}
\* the largest reconnectAttempts a backoff run starts from
MaxAttempts == 40
\* the number of chat messages a log run sends
MaxChats == 250
\* texts the operator sends with the chat command
Messages == {"hello"}
\* user codes the Microsoft device-code flow may hand to onMsaCode
UserCodes == {"123-456", "789-012"}

\* the names client and Timeout objects can have in one run
ConnIds == 1..MaxConns
TimerIds == 1..MaxTimers

(* ------------------------------------------------------- program constants *)
LogCap == 200

Null == 0
NoCode == [present |-> FALSE]

ActiveStatuses == {"Connecting", "Online", "Auth Required"}
Statuses == ActiveStatuses \cup {"Offline", "Error"}

(* ----------------------------------------------------------------- helpers *)
has(ad, email) == email \in DOMAIN ad

\* addLog without the shift
addLog_unbounded(ad, email, message) ==
  IF ~has(ad, email) THEN ad
  ELSE [ad EXCEPT ![email].logs = Append(@, message)]

\* addLog: push, then shift when the length exceeds the cap
addLog(ad, email, message) ==
  IF ~has(ad, email) THEN ad
  ELSE LET pushed == Append(ad[email].logs, message)
       IN [ad EXCEPT ![email].logs =
             IF Len(pushed) > LogCap THEN Tail(pushed) ELSE pushed]

\* clearTimeout: a pending Timeout is cancelled, anything else is ignored
clearTimeout(ts, t) ==
  IF t # Null /\ ts[t].state = "pending"
  THEN [ts EXCEPT ![t].state = "cleared"]
  ELSE ts

\* client.disconnect(): the connection starts closing
clientDisconnect(cs, c) ==
  IF cs[c].phase = "open" THEN [cs EXCEPT ![c].phase = "ending"] ELSE cs

\* the world a handler reads and writes
World == [ad |-> accountData, conns |-> conns, timers |-> timers]

(* ------------------------------------------------------- scheduleReconnect *)
\* the numbers of the backoff formula: 5000 * 1.5^min(n, 12), at most 60000
BaseDelayMs == 5000
GrowthNum == 3
GrowthDen == 2
CapExponent == 12
MaxDelayMs == 60000

RECURSIVE Pow(_, _)
Pow(b, k) == IF k = 0 THEN 1 ELSE b * Pow(b, k - 1)

Min(x, y) == IF x <= y THEN x ELSE y

\* the largest k with GrowthDen^k dividing x
RECURSIVE Twos(_)
Twos(x) == IF x % GrowthDen = 0 THEN 1 + Twos(x \div GrowthDen) ELSE 0

\* the delay without the ceiling of 60000 ms
reconnectDelay_noCeiling(n) ==
  LET m == Min(n, CapExponent)
      k == Min(m, Twos(BaseDelayMs))
  IN [num |-> (BaseDelayMs \div Pow(GrowthDen, k)) * Pow(GrowthNum, m),
      den |-> Pow(GrowthDen, m - k)]

\* Math.min(5000 * Math.pow(1.5, Math.min(n, 12)), 60000) in milliseconds, as
\* the exact fraction num/den in lowest terms (every value the code computes
\* here is a binary fraction a double holds exactly).  The powers of two of
\* the base are cancelled against the denominator before multiplying, which
\* keeps the numerator small.
reconnectDelay(n) ==
  LET m == Min(n, CapExponent)
      k == Min(m, Twos(BaseDelayMs))
      num == (BaseDelayMs \div Pow(GrowthDen, k)) * Pow(GrowthNum, m)
      den == Pow(GrowthDen, m - k)
  IN IF num <= MaxDelayMs * den
     THEN [num |-> num, den |-> den]
     ELSE [num |-> MaxDelayMs, den |-> 1]

\* a whole number of milliseconds as a delay
Ms(x) == [num |-> x, den |-> 1]

\* scheduleReconnect without its own check of manualDisconnect/autoReconnect
scheduleReconnect_unguarded(W, email) ==
  IF ~has(W.ad, email)
  THEN W
  ELSE LET ad1 == addLog(W.ad, email, <<"sched", "Auto-reconnect in">>)
           ts1 == clearTimeout(W.timers, ad1[email].reconnectTimer)
           ts2 == Append(ts1, [email |-> email, state |-> "pending",
                               attempts |-> ad1[email].reconnectAttempts,
                               delay |->
                                 reconnectDelay(ad1[email].reconnectAttempts)])
       IN [W EXCEPT !.ad = [ad1 EXCEPT ![email].reconnectTimer = Len(ts2)],
                    !.timers = ts2]

scheduleReconnect(W, email) ==
  IF ~has(W.ad, email) \/ W.ad[email].manualDisconnect
       \/ ~W.ad[email].autoReconnect
  THEN W
  ELSE LET ad1 == addLog(W.ad, email, <<"sched", "Auto-reconnect in">>)
           ts1 == clearTimeout(W.timers, ad1[email].reconnectTimer)
           ts2 == Append(ts1, [email |-> email, state |-> "pending",
                               attempts |-> ad1[email].reconnectAttempts,
                               delay |->
                                 reconnectDelay(ad1[email].reconnectAttempts)])
       IN [W EXCEPT !.ad = [ad1 EXCEPT ![email].reconnectTimer = Len(ts2)],
                    !.timers = ts2]

(* -------------------------------------------------------- handleSessionEnd *)
\* whether handleSessionEnd passes its guard and performs the transition
endPerformed(ad, email) == has(ad, email) /\ ~ad[email].disconnectHandled

handleSessionEnd(W, email, reason, isError) ==
  IF ~endPerformed(W.ad, email) THEN W
  ELSE LET ad1 == [W.ad EXCEPT ![email].disconnectHandled = TRUE,
                               ![email].status =
                                  IF isError THEN "Error" ELSE "Offline",
                               ![email].client = Null]
           ad2 == addLog(ad1, email,
                         <<IF isError THEN "error" ELSE "plug", reason>>)
           W2  == [W EXCEPT !.ad = ad2]
       IN IF ~ad2[email].manualDisconnect /\ ad2[email].autoReconnect
          THEN scheduleReconnect(W2, email)
          ELSE W2

(* ---------------------------------------------------------------- startBot *)
NewBot == [client |-> Null, status |-> "Connecting", logs |-> << >>,
           autoReconnect |-> TRUE, reconnectAttempts |-> 0,
           manualDisconnect |-> FALSE, deviceCode |-> NoCode,
           reconnectTimer |-> Null, disconnectHandled |-> FALSE]

\* startBot that switches auto-reconnect back on
startBot_enablesReconnect(W, email, isReconnect, opens) ==
  LET ad0 == IF has(W.ad, email) THEN W.ad ELSE (email :> NewBot) @@ W.ad
      ad1 == [ad0 EXCEPT ![email].status = "Connecting",
                         ![email].deviceCode = NoCode,
                         ![email].manualDisconnect = FALSE,
                         ![email].autoReconnect = TRUE,
                         ![email].disconnectHandled = FALSE,
                         ![email].reconnectAttempts =
                            IF isReconnect THEN @ + 1 ELSE 0]
      ad2 == addLog(ad1, email,
                    IF isReconnect THEN <<"retry", "Reconnect attempt">>
                    ELSE <<"rocket", "Starting connection">>)
  IN IF opens
     THEN LET cs1 == Append(W.conns, [email |-> email, phase |-> "open",
                                      spawned |-> FALSE, queued |-> << >>])
          IN [W EXCEPT !.ad = [ad2 EXCEPT ![email].client = Len(cs1)],
                       !.conns = cs1]
     ELSE LET ad3 == addLog([ad2 EXCEPT ![email].status = "Error"], email,
                            <<"error", "Client creation failed">>)
          IN scheduleReconnect([W EXCEPT !.ad = ad3], email)

\* startBot whose catch does not call the scheduler
startBot_noRetry(W, email, isReconnect, opens) ==
  LET ad0 == IF has(W.ad, email) THEN W.ad ELSE (email :> NewBot) @@ W.ad
      ad1 == [ad0 EXCEPT ![email].status = "Connecting",
                         ![email].deviceCode = NoCode,
                         ![email].manualDisconnect = FALSE,
                         ![email].disconnectHandled = FALSE,
                         ![email].reconnectAttempts =
                            IF isReconnect THEN @ + 1 ELSE 0]
      ad2 == addLog(ad1, email,
                    IF isReconnect THEN <<"retry", "Reconnect attempt">>
                    ELSE <<"rocket", "Starting connection">>)
  IN IF opens
     THEN LET cs1 == Append(W.conns, [email |-> email, phase |-> "open",
                                      spawned |-> FALSE, queued |-> << >>])
          IN [W EXCEPT !.ad = [ad2 EXCEPT ![email].client = Len(cs1)],
                       !.conns = cs1]
     ELSE [W EXCEPT !.ad = addLog([ad2 EXCEPT ![email].status = "Error"],
                                  email, <<"error", "Client creation failed">>)]

\* startBot without the count of reconnect attempts
startBot_noCount(W, email, isReconnect, opens) ==
  LET ad0 == IF has(W.ad, email) THEN W.ad ELSE (email :> NewBot) @@ W.ad
      ad1 == [ad0 EXCEPT ![email].status = "Connecting",
                         ![email].deviceCode = NoCode,
                         ![email].manualDisconnect = FALSE,
                         ![email].disconnectHandled = FALSE,
                         ![email].reconnectAttempts = 0]
      ad2 == addLog(ad1, email,
                    IF isReconnect THEN <<"retry", "Reconnect attempt">>
                    ELSE <<"rocket", "Starting connection">>)
  IN IF opens
     THEN LET cs1 == Append(W.conns, [email |-> email, phase |-> "open",
                                      spawned |-> FALSE, queued |-> << >>])
          IN [W EXCEPT !.ad = [ad2 EXCEPT ![email].client = Len(cs1)],
                       !.conns = cs1]
     ELSE LET ad3 == addLog([ad2 EXCEPT ![email].status = "Error"], email,
                            <<"error", "Client creation failed">>)
          IN scheduleReconnect([W EXCEPT !.ad = ad3], email)

\* opens: whether createClient returns a client (TRUE) or throws (FALSE)
startBot(W, email, isReconnect, opens) ==
  LET ad0 == IF has(W.ad, email) THEN W.ad ELSE (email :> NewBot) @@ W.ad
      ad1 == [ad0 EXCEPT ![email].status = "Connecting",
                         ![email].deviceCode = NoCode,
                         ![email].manualDisconnect = FALSE,
                         ![email].disconnectHandled = FALSE,
                         ![email].reconnectAttempts =
                            IF isReconnect THEN @ + 1 ELSE 0]
      ad2 == addLog(ad1, email,
                    IF isReconnect THEN <<"retry", "Reconnect attempt">>
                    ELSE <<"rocket", "Starting connection">>)
  IN IF opens
     THEN LET cs1 == Append(W.conns, [email |-> email, phase |-> "open",
                                      spawned |-> FALSE, queued |-> << >>])
          IN [W EXCEPT !.ad = [ad2 EXCEPT ![email].client = Len(cs1)],
                       !.conns = cs1]
     ELSE LET ad3 == addLog([ad2 EXCEPT ![email].status = "Error"], email,
                            <<"error", "Client creation failed">>)
          IN scheduleReconnect([W EXCEPT !.ad = ad3], email)

(* ------------------------------------------------------------------ bounds *)
\* An operator command or a connection event is explored only while the
\* account's log has room; a handler that may call createClient only while
\* another client object may be made, and one that may call setTimeout only
\* while another Timeout object may be made.
LogRoom(email) ==
  has(accountData, email) => Len(accountData[email].logs) < MaxLog

ConnRoom == Len(conns) < MaxConns

TimerRoom == Len(timers) < MaxTimers

(* ----------------------------------------------------- record of the step *)
\* what the last handler was and what it did: op, the account, the connection
\* or timer whose callback ran, whether startBot was called (and whether it
\* created the record), whether handleSessionEnd performed its transition,
\* whether an operator command was accepted, and the Timeout objects the
\* handler cancelled
Op(name, email) ==
  [op |-> name, email |-> email, conn |-> Null, timer |-> Null,
   startBot |-> FALSE, isReconnect |-> FALSE, created |-> FALSE,
   performed |-> FALSE, ok |-> TRUE, threw |-> FALSE, cleared |-> {},
   code |-> "", isError |-> FALSE]

ConnectOps == {"PostConnect", "DiscordConnect"}
ChatOps == {"GetChat", "DiscordChat"}
StopOps == {"PostDisconnect", "DiscordDisconnect"}
ReconnectOps == {"PostSetReconnect", "PostToggleReconnect", "DiscordReconnect"}
EndOps == {"OnDisconnect", "OnEnd", "OnClose", "OnError"}

\* sessionEnds[c]: how many times a signal of connection c has made
\* handleSessionEnd perform the end-of-session transition.
\* stoppedConns: the connections a stop command has closed.
Commit(W, op) ==
  /\ accountData' = W.ad
  /\ conns' = W.conns
  /\ timers' = W.timers
  /\ sessionEnds' =
       [c \in 1..Len(W.conns) |->
          IF c > Len(sessionEnds) THEN 0
          ELSE IF op.performed /\ c = op.conn THEN sessionEnds[c] + 1
          ELSE sessionEnds[c]]
  /\ stoppedConns' =
       IF op.op \in StopOps /\ op.ok /\ accountData[op.email].client # Null
       THEN stoppedConns \cup {accountData[op.email].client}
       ELSE stoppedConns
  /\ last' = [op EXCEPT !.cleared =
                {t \in DOMAIN timers : /\ timers[t].state = "pending"
                                       /\ W.timers[t].state = "cleared"}]

(* -------------------------------------------------------------------- Init *)
Init ==
  /\ accountData = [e \in {} |-> NewBot]
  /\ conns = << >>
  /\ timers = << >>
  /\ sessionEnds = << >>
  /\ stoppedConns = {}
  /\ last = Op("init", "")

(* --------------------------------------------------------- operator: start *)
\* the guard with 'Auth Required' left out of the list
AlreadyActive_withoutAuth(email) ==
  has(accountData, email)
    /\ accountData[email].status \in {"Connecting", "Online"}

AlreadyActive(email) ==
  has(accountData, email) /\ accountData[email].status \in ActiveStatuses

\* the body shared by POST /connect and the Discord connect command
connectCommand(email, opens, name) ==
  IF AlreadyActive(email)
  THEN Commit(World, [Op(name, email) EXCEPT !.ok = FALSE])
  ELSE Commit(startBot(World, email, FALSE, opens),
              [Op(name, email) EXCEPT !.startBot = TRUE, !.threw = ~opens,
                                      !.created = ~has(accountData, email)])

PostConnect(email) ==
  /\ LogRoom(email) /\ ConnRoom /\ TimerRoom
  /\ \E opens \in BOOLEAN : connectCommand(email, opens, "PostConnect")

DiscordConnect(email) ==
  /\ LogRoom(email) /\ ConnRoom /\ TimerRoom
  /\ \E opens \in BOOLEAN : connectCommand(email, opens, "DiscordConnect")

(* ---------------------------------------------------------- operator: stop *)
\* stopRecord that cancels every pending Timeout of the server
stopRecord_clearsAll(W, email, nullTimer, message) ==
  LET b == W.ad[email]
      ts1 == [t \in DOMAIN W.timers |->
                IF W.timers[t].state = "pending"
                THEN [W.timers[t] EXCEPT !.state = "cleared"]
                ELSE W.timers[t]]
      cs1 == IF b.client # Null THEN clientDisconnect(W.conns, b.client)
             ELSE W.conns
      ad1 == [W.ad EXCEPT ![email].manualDisconnect = TRUE,
                          ![email].disconnectHandled = TRUE,
                          ![email].autoReconnect = FALSE,
                          ![email].reconnectTimer =
                             IF nullTimer THEN Null ELSE @,
                          ![email].client = Null,
                          ![email].status = "Offline"]
  IN [ad |-> addLog(ad1, email, <<"plug", message>>),
      conns |-> cs1, timers |-> ts1]

\* stopRecord with the clearTimeout call left out
stopRecord_keepsTimer(W, email, nullTimer, message) ==
  LET b == W.ad[email]
      cs1 == IF b.client # Null THEN clientDisconnect(W.conns, b.client)
             ELSE W.conns
      ad1 == [W.ad EXCEPT ![email].manualDisconnect = TRUE,
                          ![email].disconnectHandled = TRUE,
                          ![email].autoReconnect = FALSE,
                          ![email].reconnectTimer =
                             IF nullTimer THEN Null ELSE @,
                          ![email].client = Null,
                          ![email].status = "Offline"]
  IN [ad |-> addLog(ad1, email, <<"plug", message>>),
      conns |-> cs1, timers |-> W.timers]

\* nullTimer: POST /disconnect also sets reconnectTimer to null, the Discord
\* command only clears the Timeout
stopRecord(W, email, nullTimer, message) ==
  LET b == W.ad[email]
      ts1 == clearTimeout(W.timers, b.reconnectTimer)
      cs1 == IF b.client # Null THEN clientDisconnect(W.conns, b.client)
             ELSE W.conns
      ad1 == [W.ad EXCEPT ![email].manualDisconnect = TRUE,
                          ![email].disconnectHandled = TRUE,
                          ![email].autoReconnect = FALSE,
                          ![email].reconnectTimer =
                             IF nullTimer THEN Null ELSE @,
                          ![email].client = Null,
                          ![email].status = "Offline"]
  IN [ad |-> addLog(ad1, email, <<"plug", message>>),
      conns |-> cs1, timers |-> ts1]

postDisconnect(email) ==
  IF ~has(accountData, email)
  THEN Commit(World, [Op("PostDisconnect", email) EXCEPT !.ok = FALSE])
  ELSE Commit(stopRecord(World, email, TRUE, "Manually disconnected."),
              Op("PostDisconnect", email))

PostDisconnect(email) ==
  /\ LogRoom(email)
  /\ postDisconnect(email)

DiscordDisconnect(email) ==
  /\ LogRoom(email)
  /\ IF ~has(accountData, email)
     THEN Commit(World, [Op("DiscordDisconnect", email) EXCEPT !.ok = FALSE])
     ELSE Commit(stopRecord(World, email, FALSE, "Disconnected via Discord."),
                 Op("DiscordDisconnect", email))

(* ------------------------------------------------ operator: auto-reconnect *)
\* setting the flag to off also cancels the pending timer
setAutoReconnect_cancels(W, email, enabled, message) ==
  [W EXCEPT !.ad = addLog([W.ad EXCEPT ![email].autoReconnect = enabled],
                          email, <<"loop", message>>),
            !.timers = IF enabled THEN @
                       ELSE clearTimeout(@, W.ad[email].reconnectTimer)]

setAutoReconnect(W, email, enabled, message) ==
  [W EXCEPT !.ad = addLog([W.ad EXCEPT ![email].autoReconnect = enabled],
                          email, <<"loop", message>>)]

postSetReconnect(email) ==
  IF ~has(accountData, email)
  THEN Commit(World, [Op("PostSetReconnect", email) EXCEPT !.ok = FALSE])
  ELSE \E enabled \in BOOLEAN :
         Commit(setAutoReconnect(World, email, enabled,
                  IF enabled THEN "Auto-reconnect set to ON"
                  ELSE "Auto-reconnect set to OFF"),
                Op("PostSetReconnect", email))

PostSetReconnect(email) ==
  /\ LogRoom(email)
  /\ postSetReconnect(email)

PostToggleReconnect(email) ==
  /\ LogRoom(email)
  /\ IF ~has(accountData, email)
     THEN Commit(World, [Op("PostToggleReconnect", email) EXCEPT !.ok = FALSE])
     ELSE LET enabled == ~accountData[email].autoReconnect
          IN Commit(setAutoReconnect(World, email, enabled,
                      IF enabled THEN "Auto-reconnect ENABLED"
                      ELSE "Auto-reconnect DISABLED"),
                    Op("PostToggleReconnect", email))

DiscordReconnect(email) ==
  /\ LogRoom(email)
  /\ IF ~has(accountData, email)
     THEN Commit(World, [Op("DiscordReconnect", email) EXCEPT !.ok = FALSE])
     ELSE \E enabled \in BOOLEAN :
            Commit(setAutoReconnect(World, email, enabled,
                     IF enabled THEN "Auto-reconnect set to ON via Discord."
                     ELSE "Auto-reconnect set to OFF via Discord."),
                   Op("DiscordReconnect", email))

(* ------------------------------------------------ operator: test-reconnect *)
PostTestReconnect(email) ==
  /\ LogRoom(email)
  /\ IF ~has(accountData, email)
     THEN Commit(World, [Op("PostTestReconnect", email) EXCEPT !.ok = FALSE])
     ELSE LET b == accountData[email]
          IN IF b.client = Null \/ b.status # "Online"
             THEN Commit(World,
                         [Op("PostTestReconnect", email) EXCEPT !.ok = FALSE])
             ELSE Commit([World EXCEPT
                            !.ad = addLog(@, email,
                                     <<"test", "TEST: Forcing disconnect">>),
                            !.conns = clientDisconnect(@, b.client)],
                         Op("PostTestReconnect", email))

(* ---------------------------------------------------------- operator: chat *)
\* the guard with the test of the status left out
canChat_ignoresStatus(ad, email) ==
  has(ad, email) /\ ad[email].client # Null

\* bot?.client && bot.status === 'Online'
canChat(ad, email) ==
  has(ad, email) /\ ad[email].client # Null /\ ad[email].status = "Online"

\* the body shared by GET /chat and the Discord chat command; queues: whether
\* client.queue returns or throws (a throw leaves the handler before addLog)
chatCommand(email, message, queues, name, logPrefix) ==
  IF ~canChat(accountData, email)
  THEN Commit(World, [Op(name, email) EXCEPT !.ok = FALSE])
  ELSE IF ~queues
  THEN Commit(World, [Op(name, email) EXCEPT !.ok = FALSE, !.threw = TRUE])
  ELSE Commit([World EXCEPT
                 !.conns[accountData[email].client].queued =
                    Append(@, message),
                 !.ad = addLog(@, email, <<"out", logPrefix, message>>)],
              [Op(name, email) EXCEPT !.conn = accountData[email].client])

GetChat(email) ==
  /\ LogRoom(email)
  /\ \E message \in Messages, queues \in BOOLEAN :
       chatCommand(email, message, queues, "GetChat", "You:")

DiscordChat(email) ==
  /\ LogRoom(email)
  /\ \E message \in Messages, queues \in BOOLEAN :
       chatCommand(email, message, queues, "DiscordChat", "Discord -> Game:")

(* ------------------------------------------------------ connection events *)
\* A client object emits onMsaCode and spawn only while it is open and has not
\* spawned; disconnect, end and error while it has not emitted close; close
\* once.  Nothing else is assumed about the order of its events.
isOpen(c) == c \in DOMAIN conns /\ conns[c].phase = "open"
canSignal(c) == c \in DOMAIN conns /\ conns[c].phase \in {"open", "ending"}

\* onMsaCode(data): the closure writes the record it captured in startBot
OnMsaCode(c) ==
  LET email == conns[c].email
  IN /\ isOpen(c) /\ ~conns[c].spawned
     /\ LogRoom(email)
     /\ \E code \in UserCodes :
          LET ad1 == [accountData EXCEPT
                        ![email].deviceCode =
                           [present |-> TRUE, userCode |-> code,
                            verificationUri |-> "uri", expiresIn |-> 900],
                        ![email].status = "Auth Required"]
              ad2 == addLog(ad1, email, <<"key", "Microsoft auth required!">>)
              ad3 == addLog(ad2, email, <<"key", "Visit">>)
              ad4 == addLog(ad3, email, <<"key", code>>)
          IN Commit([World EXCEPT !.ad = ad4],
                    [Op("OnMsaCode", email) EXCEPT !.conn = c, !.code = code])

\* the spawn handler without the reset of the device code
spawnHandler_keepsCode(c) ==
  LET email == conns[c].email
  IN /\ isOpen(c) /\ ~conns[c].spawned
     /\ \E queues \in BOOLEAN :
          LET ad1 == [accountData EXCEPT ![email].status = "Online",
                                         ![email].reconnectAttempts = 0,
                                         ![email].disconnectHandled = FALSE]
              ad2 == addLog(ad1, email, <<"check", "Spawned!">>)
              ad3 == addLog(ad2, email,
                            IF queues THEN <<"home", "Sent: /home 1">>
                            ELSE <<"warn", "Failed to send /home 1">>)
              cs1 == [conns EXCEPT ![c].spawned = TRUE,
                                   ![c].queued =
                                      IF queues THEN Append(@, "/home 1")
                                      ELSE @]
          IN Commit([World EXCEPT !.ad = ad3, !.conns = cs1],
                    [Op("OnSpawn", email) EXCEPT !.conn = c])

\* client.on('spawn'); queues: whether client.queue returns or throws
spawnHandler(c) ==
  LET email == conns[c].email
  IN /\ isOpen(c) /\ ~conns[c].spawned
     /\ \E queues \in BOOLEAN :
          LET ad1 == [accountData EXCEPT ![email].status = "Online",
                                         ![email].reconnectAttempts = 0,
                                         ![email].deviceCode = NoCode,
                                         ![email].disconnectHandled = FALSE]
              ad2 == addLog(ad1, email, <<"check", "Spawned!">>)
              ad3 == addLog(ad2, email,
                            IF queues THEN <<"home", "Sent: /home 1">>
                            ELSE <<"warn", "Failed to send /home 1">>)
              cs1 == [conns EXCEPT ![c].spawned = TRUE,
                                   ![c].queued =
                                      IF queues THEN Append(@, "/home 1")
                                      ELSE @]
          IN Commit([World EXCEPT !.ad = ad3, !.conns = cs1],
                    [Op("OnSpawn", email) EXCEPT !.conn = c])

OnSpawn(c) ==
  /\ isOpen(c)
  /\ LogRoom(conns[c].email)
  /\ spawnHandler(c)

\* the four end signals: each calls handleSessionEnd(email, reason, isError)
endSignal(c, name, reason, isError, phase) ==
  LET email == conns[c].email
      W1 == [World EXCEPT !.conns[c].phase = phase]
  IN Commit(handleSessionEnd(W1, email, reason, isError),
            [Op(name, email) EXCEPT
               !.conn = c, !.isError = isError,
               !.performed = endPerformed(accountData, email)])

\* client.on('disconnect', packet)
OnDisconnect(c) ==
  /\ canSignal(c)
  /\ LogRoom(conns[c].email) /\ TimerRoom
  /\ \E hasMessage \in BOOLEAN :
       endSignal(c, "OnDisconnect",
                 IF hasMessage THEN "Disconnected by server - message"
                 ELSE "Disconnected by server (packet 0x05)",
                 FALSE, "ending")

\* client.on('end')
OnEnd(c) ==
  /\ canSignal(c)
  /\ LogRoom(conns[c].email) /\ TimerRoom
  /\ endSignal(c, "OnEnd", "Connection ended (socket closed by server)",
               FALSE, "ending")

\* client.on('close', hadError)
OnClose(c) ==
  /\ canSignal(c)
  /\ LogRoom(conns[c].email) /\ TimerRoom
  /\ \E hadError \in BOOLEAN :
       endSignal(c, "OnClose",
                 IF hadError THEN "Connection lost (socket error)"
                 ELSE "Connection closed",
                 hadError, "closed")

\* client.on('error', err)
OnError(c) ==
  /\ canSignal(c)
  /\ LogRoom(conns[c].email) /\ TimerRoom
  /\ endSignal(c, "OnError", "Error - message", TRUE, "ending")

(* ------------------------------------------------------------- timer fires *)
\* the callback without the check of autoReconnect
timerRecheck_ignoresFlag(b) == ~b.manualDisconnect

\* the condition the setTimeout callback checks again when it runs
timerRecheck(b) == ~b.manualDisconnect /\ b.autoReconnect

\* the setTimeout callback of scheduleReconnect; the record the closure
\* captured is the record of the table (records are never replaced)
TimerFire(t) ==
  LET email == timers[t].email
      W1 == [World EXCEPT !.timers[t].state = "fired"]
  IN /\ t \in DOMAIN timers /\ timers[t].state = "pending"
     /\ ConnRoom /\ TimerRoom
     /\ IF timerRecheck(accountData[email])
        THEN \E opens \in BOOLEAN :
               Commit(startBot(W1, email, TRUE, opens),
                      [Op("TimerFire", email) EXCEPT
                         !.timer = t, !.startBot = TRUE, !.isReconnect = TRUE,
                         !.threw = ~opens])
        ELSE Commit(W1, [Op("TimerFire", email) EXCEPT !.timer = t])

Next ==
  \/ \E email \in Accounts :
       \/ PostConnect(email)
       \/ DiscordConnect(email)
       \/ PostDisconnect(email)
       \/ DiscordDisconnect(email)
       \/ PostSetReconnect(email)
       \/ PostToggleReconnect(email)
       \/ DiscordReconnect(email)
       \/ PostTestReconnect(email)
       \/ GetChat(email)
       \/ DiscordChat(email)
  \/ \E c \in ConnIds :
       \/ OnMsaCode(c)
       \/ OnSpawn(c)
       \/ OnDisconnect(c)
       \/ OnEnd(c)
       \/ OnClose(c)
       \/ OnError(c)
  \/ \E t \in TimerIds : TimerFire(t)

Spec == Init /\ [][Next]_vars

(* ------------------------------------- a few handlers, to a longer log *)
\* The handlers of start, stop, set-reconnect, spawn, end, error and of the
\* reconnect timer, from the same initial state, explored to a longer log
\* than Spec can afford with every handler.
StaleRoom(email) ==
  has(accountData, email) => Len(accountData[email].logs) < MaxLogStale

StaleConnect(email) ==
  /\ StaleRoom(email) /\ ConnRoom /\ TimerRoom
  /\ \E opens \in BOOLEAN : connectCommand(email, opens, "PostConnect")

StaleDisconnect(email) ==
  /\ StaleRoom(email)
  /\ postDisconnect(email)

StaleSetReconnect(email) ==
  /\ StaleRoom(email)
  /\ postSetReconnect(email)

StaleSpawn(c) ==
  /\ isOpen(c)
  /\ StaleRoom(conns[c].email)
  /\ spawnHandler(c)

StaleEnd(c) ==
  /\ canSignal(c)
  /\ StaleRoom(conns[c].email) /\ TimerRoom
  /\ endSignal(c, "OnEnd", "Connection ended (socket closed by server)",
               FALSE, "ending")

StaleError(c) ==
  /\ canSignal(c)
  /\ StaleRoom(conns[c].email) /\ TimerRoom
  /\ endSignal(c, "OnError", "Error - message", TRUE, "ending")

NextStale ==
  \/ \E email \in Accounts :
       \/ StaleConnect(email)
       \/ StaleDisconnect(email)
       \/ StaleSetReconnect(email)
  \/ \E c \in ConnIds :
       \/ StaleSpawn(c)
       \/ StaleEnd(c)
       \/ StaleError(c)
  \/ \E t \in TimerIds : TimerFire(t)

SpecStale == Init /\ [][NextStale]_vars

(* ------------------------------------------------------------ two accounts *)
\* Every handler, for two accounts that share the server, explored to a
\* shorter log each.
PairRoom(email) ==
  has(accountData, email) => Len(accountData[email].logs) < MaxLogPair

PairPostConnect(email) ==
  /\ PairRoom(email)
  /\ PostConnect(email)

PairDiscordConnect(email) ==
  /\ PairRoom(email)
  /\ DiscordConnect(email)

PairPostDisconnect(email) ==
  /\ PairRoom(email)
  /\ PostDisconnect(email)

PairDiscordDisconnect(email) ==
  /\ PairRoom(email)
  /\ DiscordDisconnect(email)

PairPostSetReconnect(email) ==
  /\ PairRoom(email)
  /\ PostSetReconnect(email)

PairPostToggleReconnect(email) ==
  /\ PairRoom(email)
  /\ PostToggleReconnect(email)

PairDiscordReconnect(email) ==
  /\ PairRoom(email)
  /\ DiscordReconnect(email)

PairPostTestReconnect(email) ==
  /\ PairRoom(email)
  /\ PostTestReconnect(email)

PairGetChat(email) ==
  /\ PairRoom(email)
  /\ GetChat(email)

PairDiscordChat(email) ==
  /\ PairRoom(email)
  /\ DiscordChat(email)

PairOnMsaCode(c) ==
  /\ c \in DOMAIN conns
  /\ PairRoom(conns[c].email)
  /\ OnMsaCode(c)

PairOnSpawn(c) ==
  /\ c \in DOMAIN conns
  /\ PairRoom(conns[c].email)
  /\ OnSpawn(c)

PairOnDisconnect(c) ==
  /\ c \in DOMAIN conns
  /\ PairRoom(conns[c].email)
  /\ OnDisconnect(c)

PairOnEnd(c) ==
  /\ c \in DOMAIN conns
  /\ PairRoom(conns[c].email)
  /\ OnEnd(c)

PairOnClose(c) ==
  /\ c \in DOMAIN conns
  /\ PairRoom(conns[c].email)
  /\ OnClose(c)

PairOnError(c) ==
  /\ c \in DOMAIN conns
  /\ PairRoom(conns[c].email)
  /\ OnError(c)

NextPair ==
  \/ \E email \in PairAccounts :
       \/ PairPostConnect(email)
       \/ PairDiscordConnect(email)
       \/ PairPostDisconnect(email)
       \/ PairDiscordDisconnect(email)
       \/ PairPostSetReconnect(email)
       \/ PairPostToggleReconnect(email)
       \/ PairDiscordReconnect(email)
       \/ PairPostTestReconnect(email)
       \/ PairGetChat(email)
       \/ PairDiscordChat(email)
  \/ \E c \in ConnIds :
       \/ PairOnMsaCode(c)
       \/ PairOnSpawn(c)
       \/ PairOnDisconnect(c)
       \/ PairOnEnd(c)
       \/ PairOnClose(c)
       \/ PairOnError(c)
  \/ \E t \in TimerIds : TimerFire(t)

SpecPair == Init /\ [][NextPair]_vars

(* ------------------------------------------- the server cannot be reached *)
\* Every createClient throws.  The operator starts, stops and sets
\* auto-reconnect; a Timeout that is pending and not cleared fires after its
\* delay (setTimeout), which is the weak fairness of its callback.
RetryRoom(email) ==
  has(accountData, email) => Len(accountData[email].logs) < MaxLogRetry

RetryConnect(email) ==
  /\ RetryRoom(email) /\ TimerRoom
  /\ connectCommand(email, FALSE, "PostConnect")

RetryDisconnect(email) ==
  /\ RetryRoom(email)
  /\ postDisconnect(email)

RetrySetReconnect(email) ==
  /\ RetryRoom(email)
  /\ postSetReconnect(email)

RetryFire(t) ==
  /\ TimerFire(t)
  /\ last'.startBot => last'.threw

NextRetry ==
  \/ \E email \in Accounts :
       \/ RetryConnect(email)
       \/ RetryDisconnect(email)
       \/ RetrySetReconnect(email)
  \/ \E t \in TimerIds : RetryFire(t)

SpecRetry ==
  Init /\ [][NextRetry]_vars /\ \A t \in TimerIds : WF_vars(RetryFire(t))

(* ------------------------------------------------- the backoff on its own *)
\* A session that is down after n reconnect attempts (the delay depends on
\* nothing else of the record): the scheduler arms the timer for attempt n,
\* the timer fires, opening the connection fails and the scheduler arms the
\* timer for attempt n + 1.
InitDelay ==
  /\ \E n \in 0..MaxAttempts :
       accountData = [email \in Accounts |->
                        [NewBot EXCEPT !.status = "Error",
                                       !.reconnectAttempts = n,
                                       !.disconnectHandled = TRUE]]
  /\ conns = << >>
  /\ timers = << >>
  /\ sessionEnds = << >>
  /\ stoppedConns = {}
  /\ last = Op("init", "")

DelayArm(email) ==
  /\ timers = << >>
  /\ Commit(scheduleReconnect(World, email), Op("scheduleReconnect", email))

DelayRetryFails(t) ==
  /\ TimerFire(t)
  /\ last'.threw

NextDelay ==
  \/ \E email \in Accounts : DelayArm(email)
  \/ \E t \in TimerIds : DelayRetryFails(t)

SpecDelay == InitDelay /\ [][NextDelay]_vars

(* ----------------------------------------------------- the log on its own *)
\* One account is started, spawns and is then sent the chat messages 1, 2,
\* 3, ...; every one of them is queued and logged by the chat handler.
LogStart(email) ==
  /\ PostConnect(email)
  /\ ~last'.threw

\* the number of the next chat message: one more than the newest logged one
NextChat(email) ==
  LET logs == accountData[email].logs
  IN IF logs[Len(logs)][1] = "out" THEN logs[Len(logs)][3] + 1 ELSE 1

LogChat(email) ==
  /\ canChat(accountData, email)
  /\ NextChat(email) <= MaxChats
  /\ chatCommand(email, NextChat(email), TRUE, "GetChat", "You:")

NextLog ==
  \/ \E email \in Accounts : LogStart(email)
  \/ \E c \in ConnIds : OnSpawn(c)
  \/ \E email \in Accounts : LogChat(email)

SpecLog == Init /\ [][NextLog]_vars

(* ===================================================================== *)
(* Claims                                                                *)
(* ===================================================================== *)
bot(email) == accountData[email]

\* the connections of an account that startBot opened and that have neither
\* been closed by client.disconnect() nor emitted an end signal
openConns(email) ==
  {c \in DOMAIN conns : conns[c].email = email /\ conns[c].phase = "open"}

\* the Timeout objects of an account that are armed and have neither fired
\* nor been cleared
pendingTimers(email) ==
  {t \in DOMAIN timers :
     timers[t].email = email /\ timers[t].state = "pending"}

\* C1: for every account at most one connection opened by startBot and not
\* yet closed or ended exists at any instant.
C1_AtMostOneOpenConnection ==
  \A email \in Accounts : Cardinality(openConns(email)) <= 1


\* C2: no connection attempt has the end-of-session transition of
\* handleSessionEnd performed for it more than once, whatever end signals its
\* connection emits and whenever they arrive.
C2_OneEndPerAttempt ==
  \A c \in DOMAIN sessionEnds : sessionEnds[c] <= 1

\* C3: a stop command cancels, within the call, every reconnect timer pending
\* for the account, and a cancelled timer stays cancelled: its callback never
\* runs, so no startBot(email, true) comes from it.
C3_StopCancelsTimer ==
  [][ /\ \A t \in DOMAIN timers :
           /\ ( /\ timers[t].state = "pending"
                /\ last'.op \in StopOps
                /\ last'.email = timers[t].email )
              => ( timers'[t].state = "cleared" /\ t \in last'.cleared )
           /\ timers[t].state = "cleared"
              => ( /\ timers'[t].state = "cleared"
                   /\ ~(last'.op = "TimerFire" /\ last'.timer = t) )
      /\ last'.op \in StopOps /\ last'.ok
           => \A t \in DOMAIN timers' :
                timers'[t].email = last'.email => timers'[t].state # "pending"
    ]_vars

\* C3 witness: a stop command has just cancelled a pending reconnect timer.
C3_Witness ==
  /\ last.op \in StopOps
  /\ last.cleared # {}
  /\ \A t \in last.cleared : timers[t].state = "cleared"

\* C4 (start on an active account): a start command for an account whose state
\* is Connecting, Online or Auth Required is rejected and changes nothing.
C4_RejectsActive ==
  /\ last'.op \in ConnectOps
  /\ has(accountData, last'.email)
  /\ bot(last'.email).status \in {"Connecting", "Online", "Auth Required"}
  => /\ ~last'.ok /\ ~last'.startBot
     /\ accountData' = accountData
     /\ conns' = conns
     /\ timers' = timers

\* C4 (two starts back to back for a new account), as claimed: the second
\* start never calls startBot.
C4_SecondStartNeverStarts ==
  /\ last.op \in ConnectOps /\ last.created
  /\ last'.op \in ConnectOps /\ last'.email = last.email
  => ~last'.startBot

\* C4 as amended: the second start calls startBot exactly when the first one
\* failed to open the connection and left the state Error.
C4_SecondStartOnlyAfterFailure ==
  /\ last.op \in ConnectOps /\ last.created
  /\ last'.op \in ConnectOps /\ last'.email = last.email
  => (last'.startBot <=> accountData[last.email].status = "Error")

\* C4, the original claim: rejection on an active account, and two starts
\* back to back for a new account make exactly one startBot call.
C4_Original ==
  [][C4_RejectsActive /\ C4_SecondStartNeverStarts]_vars

\* C4, amended: rejection on an active account leaves the record unchanged;
\* two starts back to back for a new account make exactly one startBot call
\* unless the first failed to open the connection (state Error), in which
\* case the second is accepted.
C4_StartOnActiveRejected ==
  [][C4_RejectsActive /\ C4_SecondStartOnlyAfterFailure]_vars

\* C4 witness: the second of two starts back to back for a new account has
\* been rejected; the record holds only what the first start wrote.
C4_Witness ==
  /\ last.op \in ConnectOps /\ ~last.ok
  /\ has(accountData, last.email)
  /\ bot(last.email).status = "Connecting"
  /\ Len(bot(last.email).logs) = 1

\* C5: an end signal emitted by a connection that a stop command has closed
\* neither moves the state away from Offline nor arms a reconnect timer nor
\* starts a reconnect.
C5_StoppedConnectionIsInert ==
  [][ \A c \in stoppedConns :
        ( last'.op \in EndOps /\ last'.conn = c )
        => LET email == conns[c].email
           IN /\ bot(email).status = "Offline"
                   => accountData'[email].status = "Offline"
              /\ pendingTimers(email)' \subseteq pendingTimers(email)
              /\ ~last'.startBot
    ]_vars

\* C6: switching auto-reconnect off (or on) neither cancels nor arms a
\* timer, and a timer that fires while autoReconnect is false does not call
\* startBot and leaves the record, hence its state, unchanged.
C6_DisabledTimerDoesNothing ==
  [][ /\ last'.op \in ReconnectOps => timers' = timers
      /\ \A t \in DOMAIN timers :
           ( /\ last'.op = "TimerFire" /\ last'.timer = t
             /\ ~bot(timers[t].email).autoReconnect )
           => /\ ~last'.startBot
              /\ accountData' = accountData
              /\ conns' = conns
    ]_vars

\* C6 witness: auto-reconnect was switched off on an Offline or Error session
\* while its timer was pending, and the timer has just fired without effect.
C6_Witness ==
  /\ last.op = "TimerFire" /\ ~last.startBot
  /\ timers[last.timer].state = "fired"
  /\ bot(last.email).status \in {"Offline", "Error"}
  /\ ~bot(last.email).autoReconnect /\ ~bot(last.email).manualDisconnect
  /\ bot(last.email).logs[Len(bot(last.email).logs)]
       = <<"loop", "Auto-reconnect set to OFF">>

C8_ChallengeOnlyWhileAuthRequired ==
  \A email \in DOMAIN accountData :
    bot(email).deviceCode.present => bot(email).status = "Auth Required"

\* C9: a record whose state is Offline or Error holds no connection handle.
C9_DownHoldsNoHandle ==
  \A email \in DOMAIN accountData :
    bot(email).status \in {"Offline", "Error"} => bot(email).client = Null

\* C10: the transitions the claim names as unreachable never happen: no
\* step takes a record from Online to Connecting, from Offline to Online or
\* from Offline to Auth Required.
C10_NamedTransitionsUnreachable ==
  [][ \A email \in DOMAIN accountData :
        <<bot(email).status, accountData'[email].status>>
          \notin { <<"Online", "Connecting">>, <<"Offline", "Online">>,
                   <<"Offline", "Auth Required">> }
    ]_vars

\* C11: a chat command forwards the text to the connection only when the
\* state is Online and a handle is present, and then queues it on that handle
\* alone; in any other state, and for an unknown account, it is refused,
\* queues nothing on any connection and leaves the record, log included,
\* unchanged.
C11_ChatOnlyWhenOnline ==
  [][ last'.op \in ChatOps
      => IF /\ has(accountData, last'.email)
            /\ bot(last'.email).status = "Online"
            /\ bot(last'.email).client # Null
         THEN last'.ok
              => /\ last'.conn = bot(last'.email).client
                 /\ \A c \in DOMAIN conns :
                      IF c = last'.conn
                      THEN /\ Len(conns'[c].queued) = Len(conns[c].queued) + 1
                           /\ SubSeq(conns'[c].queued, 1, Len(conns[c].queued))
                                = conns[c].queued
                      ELSE conns'[c] = conns[c]
         ELSE /\ ~last'.ok
              /\ accountData' = accountData
              /\ conns' = conns
              /\ timers' = timers
    ]_vars

\* C11 witness: a chat command has just been refused for a session that holds
\* a handle but is still Connecting.
C11_Witness ==
  /\ last.op \in ChatOps /\ ~last.ok /\ ~last.threw
  /\ has(accountData, last.email)
  /\ bot(last.email).status = "Connecting"
  /\ bot(last.email).client # Null

\* The log of a new account after exactly: a start that opened a connection,
\* its spawn, and a first end signal with the error flag (client error, or
\* close with hadError) that armed a reconnect timer.  Every operator command
\* that changes anything and every reconnect attempt appends to the log, so
\* this log says that nothing else has happened to the account.
C12_Armed(ad, email) ==
  /\ has(ad, email)
  /\ Len(ad[email].logs) = 5
  /\ ad[email].logs[1] = <<"rocket", "Starting connection">>
  /\ ad[email].logs[2] = <<"check", "Spawned!">>
  /\ ad[email].logs[3] \in {<<"home", "Sent: /home 1">>,
                            <<"warn", "Failed to send /home 1">>}
  /\ ad[email].logs[4] \in {<<"error", "Error - message">>,
                            <<"error", "Connection lost (socket error)">>}
  /\ ad[email].logs[5] = <<"sched", "Auto-reconnect in">>

\* the state the scenario is in before the timer fires
C12_ArmedState(ad, ts, email) ==
  /\ ad[email].status = "Error"
  /\ ad[email].reconnectTimer \in DOMAIN ts
  /\ ts[ad[email].reconnectTimer].state = "pending"
  /\ ts[ad[email].reconnectTimer].delay = Ms(BaseDelayMs)
  /\ \A t \in DOMAIN ts : ts[t].state = "pending" => t = ad[email].reconnectTimer

\* the firing of the scenario's timer calls startBot once as a reconnect
\* attempt, which counts attempt 1 and uses up the timer
C12_Fired(email) ==
  /\ last'.startBot /\ last'.isReconnect
  /\ last'.timer = accountData[email].reconnectTimer
  /\ timers'[last'.timer].state = "fired"
  /\ accountData'[email].reconnectAttempts = 1

\* C12 as stated: start, spawn, end signal with the error flag leave the
\* session in Error with a timer armed with the delay of attempt 0 (5000 ms);
\* when the timer then fires, startBot is called once with isReconnect, the
\* state becomes Connecting and reconnectAttempts is 1.
C12_Original ==
  [][ \A email \in Accounts :
        /\ C12_Armed(accountData', email)
             => C12_ArmedState(accountData', timers', email)
        /\ C12_Armed(accountData, email) /\ last'.op = "TimerFire"
             => /\ C12_Fired(email)
                /\ accountData'[email].status = "Connecting"
    ]_vars

\* C12 amended: start, spawn, end signal with the error flag leave the session
\* in Error with a timer armed with the delay of attempt 0 (5000 ms); when the
\* timer then fires, startBot is called once with isReconnect and
\* reconnectAttempts is 1; the state is Connecting with a new handle when the
\* connection opens, and Error with a new timer armed with the delay of
\* attempt 1 when opening it throws.
C12_ReconnectAfterError ==
  [][ \A email \in Accounts :
        /\ C12_Armed(accountData', email)
             => C12_ArmedState(accountData', timers', email)
        /\ C12_Armed(accountData, email) /\ last'.op = "TimerFire"
             => /\ C12_Fired(email)
                /\ IF last'.threw
                   THEN /\ accountData'[email].status = "Error"
                        /\ accountData'[email].client = Null
                        /\ accountData'[email].reconnectTimer \in DOMAIN timers'
                        /\ timers'[accountData'[email].reconnectTimer]
                             = [email |-> email, state |-> "pending",
                                attempts |-> 1,
                                delay |-> reconnectDelay(1)]
                   ELSE /\ accountData'[email].status = "Connecting"
                        /\ accountData'[email].client = Len(conns')
                        /\ Len(conns') = Len(conns) + 1
                        /\ conns'[Len(conns')].phase = "open"
    ]_vars

\* C12 witness: the timer of the scenario has just fired and the reconnect
\* attempt opened a connection.
C12_Witness ==
  /\ last.op = "TimerFire" /\ last.startBot /\ ~last.threw
  /\ has(accountData, last.email)
  /\ Len(bot(last.email).logs) = 6
  /\ bot(last.email).logs[2] = <<"check", "Spawned!">>
  /\ bot(last.email).logs[4][1] = "error"
  /\ bot(last.email).logs[6] = <<"retry", "Reconnect attempt">>
  /\ bot(last.email).status = "Connecting"
  /\ bot(last.email).reconnectAttempts = 1

\* delays compared as fractions
DelayLeq(d, e) == d.num * e.den <= e.num * d.den

\* C13: the delay armed for reconnect attempt n is min(5000 * 1.5^min(n, 12),
\* 60000) ms: 5000, 7500, 11250 for n = 0, 1, 2; exactly 60000 for every
\* n >= 12; never below 5000 nor above 60000; and never smaller for a larger n.
C13_BackoffDelay ==
  \A t \in DOMAIN timers :
    LET n == timers[t].attempts
        d == timers[t].delay
        m == IF n < 12 THEN n ELSE 12
    IN /\ n = 0 => d = Ms(5000)
       /\ n = 1 => d = Ms(7500)
       /\ n = 2 => d = Ms(11250)
       /\ n >= 12 => d = Ms(60000)
       /\ DelayLeq(Ms(5000), d) /\ DelayLeq(d, Ms(60000))
       \* 5000 * 1.5^m <= 60000 exactly when 3^m <= 12 * 2^m
       /\ IF Pow(3, m) <= 12 * Pow(2, m)
          THEN d.num * Pow(2, m) = 5000 * Pow(3, m) * d.den
          ELSE d = Ms(60000)
       /\ \A u \in DOMAIN timers :
            timers[u].attempts >= n => DelayLeq(d, timers[u].delay)

\* C13 witness: timers were armed for attempts 12 and 13, both with 60000 ms.
C13_Witness ==
  \E t, u \in DOMAIN timers :
    /\ timers[t].attempts = 12 /\ timers[t].delay = Ms(60000)
    /\ timers[u].attempts = 13 /\ timers[u].delay = Ms(60000)

\* the i-th entry a log run inserts: the start, the two entries of the spawn,
\* then the chat messages in the order sent
C14_Inserted(email, i) ==
  IF i = 1 THEN {<<"rocket", "Starting connection">>}
  ELSE IF i = 2 THEN {<<"check", "Spawned!">>}
  ELSE IF i = 3 THEN {<<"home", "Sent: /home 1">>,
                      <<"warn", "Failed to send /home 1">>}
  ELSE {<<"out", "You:", i - 3>>}

\* the number of entries inserted so far into the log of a spawned session
C14_Count(email) == IF NextChat(email) = 1 THEN 3 ELSE NextChat(email) + 2

\* C14: the log never holds more than 200 entries, and it holds the most
\* recent entries in the order inserted: after k insertions it is insertions
\* k-199..k when k > 200 (the oldest k-200 are gone) and 1..k otherwise.
C14_LogKeepsLast200 ==
  \A email \in DOMAIN accountData :
    LET logs == accountData[email].logs
    IN /\ Len(logs) <= 200
       /\ bot(email).status = "Online"
            => LET k == C14_Count(email)
                   gone == IF k > 200 THEN k - 200 ELSE 0
               IN /\ Len(logs) = k - gone
                  /\ \A j \in 1..Len(logs) :
                       logs[j] \in C14_Inserted(email, gone + j)

\* C14 witness: after 250 insertions the log holds 200 entries and starts
\* with the 51st insertion (chat message 48).
C14_Witness ==
  \E email \in DOMAIN accountData :
    /\ bot(email).status = "Online"
    /\ C14_Count(email) = 250
    /\ Len(bot(email).logs) = 200
    /\ bot(email).logs[1] = <<"out", "You:", 48>>
    /\ bot(email).logs[200] = <<"out", "You:", 247>>

\* C15: the auth-challenge callback with user code c leaves the record in
\* Auth Required with the challenge present and its user code c; the spawn
\* event leaves it Online with reconnectAttempts 0 and no challenge.
C15_AuthThenSpawn ==
  /\ last.op = "OnMsaCode"
       => /\ bot(last.email).status = "Auth Required"
          /\ bot(last.email).deviceCode.present
          /\ bot(last.email).deviceCode.userCode = last.code
          /\ last.code \in UserCodes
  /\ last.op = "OnSpawn"
       => /\ bot(last.email).status = "Online"
          /\ bot(last.email).reconnectAttempts = 0
          /\ bot(last.email).deviceCode = NoCode

\* C15 witness: a new account was started, challenged with code 789-012 and
\* has just spawned.
C15_Witness ==
  /\ last.op = "OnSpawn"
  /\ Len(bot(last.email).logs) = 6
  /\ bot(last.email).logs[1] = <<"rocket", "Starting connection">>
  /\ bot(last.email).logs[4] = <<"key", "789-012">>
  /\ bot(last.email).logs[5] = <<"check", "Spawned!">>
  /\ bot(last.email).status = "Online"
  /\ bot(last.email).deviceCode = NoCode

\* C16: an end signal without the error flag that reaches a session that is
\* Online with autoReconnect true decides the outcome alone: the state is
\* Offline, one end-of-session log entry is written and the scheduler arms
\* one timer; an end signal with the error flag that follows immediately
\* changes nothing of the record and arms nothing.
C16_FirstEndDecides ==
  [][ /\ ( /\ last'.op \in EndOps /\ ~last'.isError
           /\ has(accountData, last'.email)
           /\ bot(last'.email).status = "Online"
           /\ bot(last'.email).autoReconnect )
        => LET logs == bot(last'.email).logs
               after == accountData'[last'.email]
           IN /\ last'.performed
              /\ after.status = "Offline"
              /\ Len(after.logs) = Len(logs) + 2
              /\ SubSeq(after.logs, 1, Len(logs)) = logs
              /\ after.logs[Len(logs) + 1][1] = "plug"
              /\ after.logs[Len(logs) + 2] = <<"sched", "Auto-reconnect in">>
              /\ Len(timers') = Len(timers) + 1
              /\ timers'[Len(timers')].state = "pending"
              /\ after.reconnectTimer = Len(timers')
      /\ ( /\ last.op \in EndOps /\ last.performed /\ ~last.isError
           /\ last'.op \in EndOps /\ last'.isError
           /\ last'.email = last.email )
        => /\ ~last'.performed
           /\ accountData' = accountData
           /\ timers' = timers
    ]_vars

\* timer t is pending and its firing may arm the next one
C17_Armed(t) ==
  /\ t \in DOMAIN timers /\ timers[t].state = "pending"
  /\ Len(timers) < MaxTimers

\* the callback of timer t has just called startBot as a reconnect attempt
C17_Retried(t) ==
  last.op = "TimerFire" /\ last.timer = t /\ last.startBot /\ last.isReconnect

\* timer t was cleared, or auto-reconnect is off for its account
C17_CalledOff(t) ==
  /\ t \in DOMAIN timers
  /\ \/ timers[t].state = "cleared"
     \/ ~bot(timers[t].email).autoReconnect

\* C17: a startBot in which createClient throws leaves the state Error and,
\* when autoReconnect is true, the record's timer pending with the delay of
\* the attempt count; a reconnect attempt counts exactly one more attempt;
\* and a pending timer leads to a startBot with isReconnect unless it is
\* cleared (a stop, or a later scheduling in its place) or auto-reconnect is
\* switched off.
C17_OpenFailureRetries ==
  /\ [][ /\ last'.startBot /\ last'.threw
            => LET after == accountData'[last'.email]
               IN /\ after.status = "Error"
                  /\ after.client = Null
                  /\ after.autoReconnect
                       => /\ after.reconnectTimer \in DOMAIN timers'
                          /\ after.reconnectTimer \notin DOMAIN timers
                          /\ timers'[after.reconnectTimer]
                               = [email |-> last'.email, state |-> "pending",
                                  attempts |-> after.reconnectAttempts,
                                  delay |->
                                    reconnectDelay(after.reconnectAttempts)]
                  /\ ~after.autoReconnect => timers' = timers
         /\ last'.op = "TimerFire" /\ last'.startBot
            => /\ last'.isReconnect
               /\ accountData'[last'.email].reconnectAttempts
                    = bot(last'.email).reconnectAttempts + 1
               /\ timers'[last'.timer].state = "fired"
       ]_vars
  /\ \A t \in TimerIds :
       C17_Armed(t) ~> (C17_Retried(t) \/ C17_CalledOff(t))

\* C17 witness: a start failed, its timer fired and the reconnect attempt
\* failed as well: attempt 1 is counted and the next timer is pending.
C17_Witness ==
  /\ last.op = "TimerFire" /\ last.startBot /\ last.threw
  /\ bot(last.email).status = "Error"
  /\ bot(last.email).reconnectAttempts = 1
  /\ bot(last.email).reconnectTimer \in DOMAIN timers
  /\ timers[bot(last.email).reconnectTimer].state = "pending"
  /\ timers[bot(last.email).reconnectTimer].delay = Ms(7500)

\* the log messages of the commands that switch auto-reconnect on
C18_OnMessages ==
  {"Auto-reconnect set to ON", "Auto-reconnect ENABLED",
   "Auto-reconnect set to ON via Discord."}

\* the log messages of the commands that switch auto-reconnect off
C18_OffMessages ==
  {"Auto-reconnect set to OFF", "Auto-reconnect DISABLED",
   "Auto-reconnect set to OFF via Discord."}

\* C18: set-reconnect, toggle-reconnect and the Discord reconnect command on
\* an existing record change the autoReconnect flag, append one log entry
\* that names the new value, and nothing else: state, handle, manualDisconnect,
\* disconnectHandled, reconnectAttempts, the timer field and every timer and
\* connection stay as they were.  On an unknown account they are refused and
\* create no record.
C18_SetReconnectOnlySetsFlag ==
  [][ last'.op \in ReconnectOps
      => /\ conns' = conns
         /\ timers' = timers
         /\ DOMAIN accountData' = DOMAIN accountData
         /\ IF has(accountData, last'.email)
            THEN LET before == bot(last'.email)
                     after == accountData'[last'.email]
                     entry == after.logs[Len(after.logs)]
                 IN /\ last'.ok
                    /\ after = [before EXCEPT
                                  !.autoReconnect = after.autoReconnect,
                                  !.logs = Append(before.logs, entry)]
                    /\ entry[1] = "loop"
                    /\ entry[2] \in (IF after.autoReconnect
                                     THEN C18_OnMessages ELSE C18_OffMessages)
                    /\ last'.op = "PostToggleReconnect"
                         => after.autoReconnect = ~before.autoReconnect
            ELSE /\ ~last'.ok
                 /\ accountData' = accountData
    ]_vars

\* C18 witness: auto-reconnect has just been switched off while the record's
\* reconnect timer is pending, and the timer is still pending.
C18_Witness ==
  /\ last.op \in ReconnectOps /\ last.ok
  /\ ~bot(last.email).autoReconnect
  /\ bot(last.email).reconnectTimer \in DOMAIN timers
  /\ timers[bot(last.email).reconnectTimer].state = "pending"

\* C19: the autoReconnect flag of a record changes only in a stop command,
\* which sets it to false, or in set-reconnect, toggle-reconnect and the
\* Discord reconnect command; a stop always leaves it false; and while it is
\* false no start, end of session or timer callback arms a timer, and no
\* timer callback starts a reconnect attempt.
C19_FlagIsTheOperators ==
  [][ /\ \A email \in DOMAIN accountData :
           accountData'[email].autoReconnect # accountData[email].autoReconnect
           => /\ last'.email = email
              /\ last'.op \in StopOps \cup ReconnectOps
      /\ last'.op \in StopOps /\ last'.ok
           => ~accountData'[last'.email].autoReconnect
      /\ ( /\ last'.op \in EndOps \cup ConnectOps \cup {"TimerFire"}
           /\ has(accountData, last'.email)
           /\ ~bot(last'.email).autoReconnect )
           => /\ Len(timers') = Len(timers)
              /\ last'.op = "TimerFire" => ~last'.startBot
    ]_vars

\* C19 witness: the session was started, stopped and manually started again,
\* and its new connection has just ended: auto-reconnect is still off and no
\* timer is pending.
C19_Witness ==
  /\ last.op \in EndOps /\ last.performed
  /\ last.conn \notin stoppedConns
  /\ Len(bot(last.email).logs) = 4
  /\ bot(last.email).logs[1] = <<"rocket", "Starting connection">>
  /\ bot(last.email).logs[2][1] = "plug"
  /\ bot(last.email).logs[3] = <<"rocket", "Starting connection">>
  /\ ~bot(last.email).autoReconnect
  /\ bot(last.email).status \in {"Offline", "Error"}
  /\ \A t \in DOMAIN timers : timers[t].state # "pending"

\* C20: a handler that runs for one account (a command, a connection event,
\* a timer callback) leaves the record of every other account, its
\* connections and its timers unchanged, and no handler removes a record.
C20_AccountsAreSeparate ==
  [][ /\ DOMAIN accountData \subseteq DOMAIN accountData'
      /\ \A other \in DOMAIN accountData :
           other # last'.email
           => /\ accountData'[other] = accountData[other]
              /\ \A c \in DOMAIN conns :
                   conns[c].email = other => conns'[c] = conns[c]
              /\ \A t \in DOMAIN timers :
                   timers[t].email = other => timers'[t] = timers[t]
      /\ \A c \in DOMAIN conns' :
           c \notin DOMAIN conns => conns'[c].email = last'.email
      /\ \A t \in DOMAIN timers' :
           t \notin DOMAIN timers => timers'[t].email = last'.email
    ]_vars

\* C20 witness: account a has just been stopped while account b, whose start
\* failed, has a pending timer of its own.
C20_Witness ==
  /\ last.op \in StopOps /\ last.ok /\ last.email = "a"
  /\ last.conn = Null /\ bot("a").status = "Offline"
  /\ has(accountData, "b")
  /\ bot("b").status = "Error"
  /\ pendingTimers("b") # {}

\* C21: the timer callback calls startBot only for an account whose state is
\* Offline or Error and that holds no connection handle; in particular not
\* for a session that a manual start has made Connecting, Auth Required or
\* Online since the timer was armed.
C21_ReconnectOnlyWhenDown ==
  [][ last'.op = "TimerFire" /\ last'.startBot
      => /\ bot(last'.email).status \in {"Offline", "Error"}
         /\ bot(last'.email).client = Null
    ]_vars

\* the handlers of the events a connection emits
EventOps == {"OnMsaCode", "OnSpawn"} \cup EndOps

\* connection c is no longer the handle of its record, because a stop closed
\* it or a later startBot opened another connection for the account
C22_NotCurrent(c) ==
  /\ c \in DOMAIN conns
  /\ bot(conns[c].email).client # c
  /\ \/ c \in stoppedConns
     \/ \E d \in DOMAIN conns : d > c /\ conns[d].email = conns[c].email

\* C22: an event (auth challenge, spawn, disconnect, end, close, error) of a
\* connection that is no longer the handle of its record leaves the record
\* unchanged, arms and cancels no timer and leaves every other connection
\* alone.
C22_StaleEventsAreIgnored ==
  [][ last'.op \in EventOps /\ C22_NotCurrent(last'.conn)
      => /\ accountData' = accountData
         /\ timers' = timers
         /\ \A d \in DOMAIN conns : d # last'.conn => conns'[d] = conns[d]
    ]_vars

====
